---- MODULE Spec2Model ----
(***************************************************************************)
(* The read pipeline of the S-expression front end: src/lexer.rs turns a   *)
(* text into tokens, src/parser.rs parses a token cursor into an Expr.     *)
(*                                                                         *)
(* A text is a sequence of characters (one-character strings).  An i64 is  *)
(* kept at its full width as a sign and a decimal magnitude (a sequence of *)
(* digits without leading zeros, <<>> for zero), so that the overflow      *)
(* checks of the integer parser are the ones of a signed 64-bit integer.   *)
(* A token is <<"LParan">>, <<"RParan">>, <<"Integer", i64>> or            *)
(* <<"Symbol", text>>; an Expr is <<"Integer", i64>>, <<"Symbol", text>>   *)
(* or <<"List", children>>.  An IResult is [st, rem, out]: st = "ok" with  *)
(* the remaining input and the output, or st = "err" with the input the    *)
(* error carries and <<ErrorKind>>.                                        *)
(***************************************************************************)
EXTENDS Integers, Sequences, FiniteSets, TLC

VARIABLES src, text, lexed, readRes, cur, call, ret

vars == <<src, text, lexed, readRes, cur, call, ret>>

(***************************************************************************)
(* Bounds of the explored inputs.                                          *)
(***************************************************************************)
MaxPieces == 3
MaxNodes == 5
MaxToks == 4

(***************************************************************************)
(* Characters.                                                             *)
(***************************************************************************)
Whitespace == {" ", "\t", "\n", "\r"}

Digits == {"0", "1", "2", "3", "4", "5", "6", "7", "8", "9"}

AsciiLetters ==
  { "a", "b", "c", "d", "e", "f", "g", "h", "i", "j", "k", "l", "m",
    "n", "o", "p", "q", "r", "s", "t", "u", "v", "w", "x", "y", "z",
    "A", "B", "C", "D", "E", "F", "G", "H", "I", "J", "K", "L", "M",
    "N", "O", "P", "Q", "R", "S", "T", "U", "V", "W", "X", "Y", "Z" }

OtherLetters == {"é"}

to_digit(c) ==
  CASE c = "0" -> 0 [] c = "1" -> 1 [] c = "2" -> 2 [] c = "3" -> 3
    [] c = "4" -> 4 [] c = "5" -> 5 [] c = "6" -> 6 [] c = "7" -> 7
    [] c = "8" -> 8 [] c = "9" -> 9

from_digit(d) ==
  CASE d = 0 -> "0" [] d = 1 -> "1" [] d = 2 -> "2" [] d = 3 -> "3"
    [] d = 4 -> "4" [] d = 5 -> "5" [] d = 6 -> "6" [] d = 7 -> "7"
    [] d = 8 -> "8" [] d = 9 -> "9"

is_alphanumeric(c) == c \in AsciiLetters \cup Digits \cup OtherLetters

(***************************************************************************)
(* i64 arithmetic on sign and magnitude.                                   *)
(***************************************************************************)
I64MaxMag == <<9, 2, 2, 3, 3, 7, 2, 0, 3, 6, 8, 5, 4, 7, 7, 5, 8, 0, 7>>

I64MinMag == <<9, 2, 2, 3, 3, 7, 2, 0, 3, 6, 8, 5, 4, 7, 7, 5, 8, 0, 8>>

RECURSIVE LexGreater(_, _)
LexGreater(a, b) ==
  IF a = <<>> THEN FALSE
  ELSE IF Head(a) # Head(b) THEN Head(a) > Head(b)
  ELSE LexGreater(Tail(a), Tail(b))

MagGreater(a, b) ==
  IF Len(a) # Len(b) THEN Len(a) > Len(b) ELSE LexGreater(a, b)

Times10Plus(mag, d) == IF mag = <<>> /\ d = 0 THEN <<>> ELSE Append(mag, d)

I64(neg, mag) == [neg |-> neg /\ mag # <<>>, mag |-> mag]

\* value.checked_mul(10).and_then(|v| v.checked_add(d)), value >= 0
checked_mul_add(value, d) ==
  LET m == Times10Plus(value.mag, d)
  IN IF MagGreater(m, I64MaxMag) THEN [some |-> FALSE, v |-> value]
     ELSE [some |-> TRUE, v |-> I64(FALSE, m)]

\* value.checked_mul(10).and_then(|v| v.checked_sub(d)), value <= 0
checked_mul_sub(value, d) ==
  LET m == Times10Plus(value.mag, d)
  IN IF MagGreater(m, I64MinMag) THEN [some |-> FALSE, v |-> value]
     ELSE [some |-> TRUE, v |-> I64(TRUE, m)]

(***************************************************************************)
(* Results.                                                                *)
(***************************************************************************)
Ok(rem, out) == [st |-> "ok", rem |-> rem, out |-> out]

Err(input, kind) == [st |-> "err", rem |-> input, out |-> <<kind>>]

NotRun == [st |-> "idle", rem |-> <<>>, out |-> <<>>]

(***************************************************************************)
(* Tokens.                                                                 *)
(***************************************************************************)
LParan == <<"LParan">>

RParan == <<"RParan">>

TokInteger(v) == <<"Integer", v>>

TokSymbol(s) == <<"Symbol", s>>

(***************************************************************************)
(* The lexer (src/lexer.rs).  A combinator that works on the result of the *)
(* parser it wraps takes that result as its last argument.                 *)
(***************************************************************************)
RECURSIVE multispace0(_)
multispace0(i) ==
  IF i # <<>> /\ Head(i) \in Whitespace THEN multispace0(Tail(i)) ELSE i

char(c, i) ==
  IF i # <<>> /\ Head(i) = c THEN Ok(Tail(i), <<c>>) ELSE Err(i, "Char")

\* value(val, parser): the parser's output replaced by val
value(val, r) == IF r.st = "ok" THEN Ok(r.rem, val) ELSE r

\* alt((p, q)): the first success
alt(p, q) == IF p.st = "ok" THEN p ELSE q

lex_lparan(input) == value(LParan, char("(", multispace0(input)))

lex_rparan(input) == value(RParan, char(")", multispace0(input)))

checked_digit(positive, value_, d) ==
  IF positive THEN checked_mul_add(value_, d) ELSE checked_mul_sub(value_, d)

\* the digit loop of nom's i64: pos is the number of characters consumed
RECURSIVE i64_digits(_, _, _, _, _)
RECURSIVE i64_digit(_, _, _, _, _)

i64_digit(input, i, pos, positive, c) ==
  IF c.some THEN i64_digits(input, Tail(i), pos + 1, positive, c.v)
  ELSE Err(input, "Digit")

i64_digits(input, i, pos, positive, value_) ==
  IF i = <<>> THEN Ok(i, value_)
  ELSE IF Head(i) \notin Digits
    THEN IF pos = 0 THEN Err(input, "Digit") ELSE Ok(i, value_)
  ELSE i64_digit(input, i, pos, positive,
                 checked_digit(positive, value_, to_digit(Head(i))))

\* the optional sign of nom's i64
sign(input) ==
  IF input # <<>> /\ Head(input) = "-" THEN Ok(Tail(input), FALSE)
  ELSE IF input # <<>> /\ Head(input) = "+" THEN Ok(Tail(input), TRUE)
  ELSE Ok(input, TRUE)

i64_signed(input, s) ==
  IF s.rem = <<>> THEN Err(input, "Digit")
  ELSE i64_digits(input, s.rem, 0, s.out, I64(FALSE, <<>>))

i64(input) == i64_signed(input, sign(input))

lex_integer_token(r) ==
  IF r.st = "ok" THEN Ok(r.rem, TokInteger(r.out)) ELSE r

lex_integer(input) == lex_integer_token(i64(multispace0(input)))

RECURSIVE PrefixLen(_)
PrefixLen(i) ==
  IF i # <<>> /\ (is_alphanumeric(Head(i)) \/ Head(i) = "_")
  THEN 1 + PrefixLen(Tail(i)) ELSE 0

take_while1_split(i, n) ==
  IF n = 0 THEN Err(i, "TakeWhile1")
  ELSE Ok(SubSeq(i, n + 1, Len(i)), SubSeq(i, 1, n))

take_while1(i) == take_while1_split(i, PrefixLen(i))

lex_symbol_token(r) ==
  IF r.st = "ok" THEN Ok(r.rem, TokSymbol(r.out)) ELSE r

lex_symbol(input) == lex_symbol_token(take_while1(multispace0(input)))

lex_alt(input) ==
  alt(lex_lparan(input),
      alt(lex_rparan(input), alt(lex_integer(input), lex_symbol(input))))

RECURSIVE lex_many0(_, _)
RECURSIVE lex_many0_step(_, _, _)

lex_many0_step(i, acc, r) ==
  IF r.st = "err" THEN Ok(i, acc)
  ELSE IF Len(r.rem) = Len(i) THEN Err(i, "Many0")
  ELSE lex_many0(r.rem, Append(acc, r.out))

lex_many0(i, acc) == lex_many0_step(i, acc, lex_alt(i))

all_consuming(r) ==
  IF r.st = "ok" /\ r.rem # <<>> THEN Err(r.rem, "Eof") ELSE r

lexer(input) == all_consuming(lex_many0(input, <<>>))

(***************************************************************************)
(* The token cursor (src/parser.rs).                                       *)
(***************************************************************************)
Tokens(tokens, start, end) == [tokens |-> tokens, start |-> start, end |-> end]

Tokens_new(tokens) == Tokens(tokens, 0, Len(tokens))

input_len(self) == Len(self.tokens)

\* take_split keeping the positions of the view it splits
take_split_kept(self, count) ==
  <<Tokens(SubSeq(self.tokens, count + 1, Len(self.tokens)),
           self.start + count, self.end),
    Tokens(SubSeq(self.tokens, 1, count), self.start, self.start + count)>>

\* (remainder, prefix); called with count <= input_len(self) only
take_split(self, count) ==
  <<Tokens(SubSeq(self.tokens, count + 1, Len(self.tokens)),
           0, Len(self.tokens) - count),
    Tokens(SubSeq(self.tokens, 1, count), 0, count)>>

slice_index(self, count) == Len(self.tokens) >= count

\* indexing a slice with a..b panics unless a <= b <= len
slice_range(self, a, b) ==
  IF a > b \/ b > Len(self.tokens)
  THEN [st |-> "panic", rem |-> self, out |-> <<"range">>]
  ELSE Ok(Tokens(SubSeq(self.tokens, a + 1, b),
                 self.start + a, self.start + b), <<>>)

slice_to(self, b) == slice_range(self, 0, b)

slice_from(self, a) == slice_range(self, a, self.end - self.end)

slice_full(self) == Ok(Tokens(self.tokens, self.start, self.end), <<>>)

(***************************************************************************)
(* The recognizers and the parser (src/parser.rs).                         *)
(***************************************************************************)
take_pair(p) == Ok(p[1], p[2])

take(count, i) ==
  IF slice_index(i, count) THEN take_pair(take_split(i, count))
  ELSE Err(i, "Eof")

\* verify(take(1), |x| matches!(x.tokens[0], tag)) on the result of take
verify(tag, input, r) ==
  IF r.st = "err" THEN r
  ELSE IF r.out.tokens[1][1] = tag THEN r
  ELSE Err(input, "Verify")

tag_token(tag, tokens) == verify(tag, tokens, take(1, tokens))

tag_lparan(tokens) == tag_token("LParan", tokens)

\* tag_rparan generated with the pattern of tag_lparan
tag_rparan_lparan(tokens) == tag_token("LParan", tokens)

tag_rparan(tokens) == tag_token("RParan", tokens)

tag_integer(tokens) == tag_token("Integer", tokens)

tag_symbol(tokens) == tag_token("Symbol", tokens)

ExprInteger(v) == <<"Integer", v>>

ExprSymbol(s) == <<"Symbol", s>>

ExprList(x) == <<"List", x>>

\* map(tag_integer, |x| Expr::Integer(i)) on the result of the tag
map_integer(r) ==
  IF r.st = "ok" THEN Ok(r.rem, ExprInteger(r.out.tokens[1][2])) ELSE r

\* map(tag_symbol, |x| Expr::Symbol(s)) on the result of the tag
map_symbol(r) ==
  IF r.st = "ok" THEN Ok(r.rem, ExprSymbol(r.out.tokens[1][2])) ELSE r

parse_integer(input) == map_integer(tag_integer(input))

parse_symbol(input) == map_symbol(tag_symbol(input))

RECURSIVE parse_list(_)
RECURSIVE parse_alt(_)
RECURSIVE parse_many0(_, _)
RECURSIVE parse_many0_step(_, _, _)
RECURSIVE delimited_first(_)
RECURSIVE delimited_second(_)

\* the alternatives without the nested list
parse_alt_atoms(input) == alt(parse_integer(input), parse_symbol(input))

parse_alt(input) ==
  alt(parse_integer(input), alt(parse_symbol(input), parse_list(input)))

parse_many0_step(i, acc, r) ==
  IF r.st = "err" THEN Ok(i, acc)
  ELSE IF input_len(r.rem) = input_len(i) THEN Err(i, "Many0")
  ELSE parse_many0(r.rem, Append(acc, r.out))

parse_many0(i, acc) == parse_many0_step(i, acc, parse_alt(i))

\* delimited(tag_lparan, many0(..), tag_rparan) mapped to Expr::List: the
\* three parsers in sequence, each on the remainder of the one before
delimited_third(items, r) ==
  IF r.st = "err" THEN r ELSE Ok(r.rem, ExprList(items))

delimited_second(m) ==
  IF m.st = "err" THEN m ELSE delimited_third(m.out, tag_rparan(m.rem))

delimited_first(l) ==
  IF l.st = "err" THEN l ELSE delimited_second(parse_many0(l.rem, <<>>))

parse_list(input) == delimited_first(tag_lparan(input))

Some(expr) == [st |-> "Some", val |-> expr]

Panic(stage) == [st |-> "panic", val |-> <<stage>>]

NotRead == [st |-> "idle", val |-> <<>>]

\* read answering an empty list where the parser fails
read_parsed_lenient(p) ==
  IF p.st = "err" THEN Some(ExprList(<<>>)) ELSE Some(p.out)

\* let (_, expr) = parse_list(..).unwrap(); Some(expr)
read_parsed(p) == IF p.st = "err" THEN Panic("parse") ELSE Some(p.out)

\* let (_, token_vec) = lex(input).unwrap(); then the parser
read_lexed(l) ==
  IF l.st = "err" THEN Panic("lex")
  ELSE read_parsed(parse_list(Tokens_new(l.out)))

read(input) == read_lexed(lexer(input))

(***************************************************************************)
(* The inputs: texts given to the lexer and to read, token vectors the     *)
(* cursor operations work on.                                              *)
(***************************************************************************)
MaxText == <<"9", "2", "2", "3", "3", "7", "2", "0", "3", "6",
             "8", "5", "4", "7", "7", "5", "8", "0", "7">>

OverText == <<"9", "2", "2", "3", "3", "7", "2", "0", "3", "6",
              "8", "5", "4", "7", "7", "5", "8", "0", "8">>

Lexemes ==
  { <<"(">>, <<")">>, <<" ">>, <<"\n">>, <<"-">>, <<"+">>, <<"7">>,
    <<"4", "2">>, <<"a">>, <<"_">>, <<".">>, <<"é">>, MaxText, OverText }

RECURSIVE PieceTexts(_)
PieceTexts(n) ==
  IF n = 0 THEN {<<>>}
  ELSE {<<>>} \cup {p \o t : p \in Lexemes, t \in PieceTexts(n - 1)}

\* to_string of an i64
RECURSIVE FmtMag(_)
FmtMag(mag) ==
  IF mag = <<>> THEN <<>> ELSE <<from_digit(Head(mag))>> \o FmtMag(Tail(mag))

Fmt(n) ==
  IF n.mag = <<>> THEN <<"0">>
  ELSE (IF n.neg THEN <<"-">> ELSE <<>>) \o FmtMag(n.mag)

SampleInts ==
  { I64(FALSE, <<>>), I64(FALSE, <<4, 2>>), I64(TRUE, <<7>>),
    I64(FALSE, <<1, 0, 0>>), I64(FALSE, I64MaxMag), I64(TRUE, I64MinMag) }

Pads == { <<>>, <<" ">>, <<"\t">>, <<"\n", "\r">> }

PaddedTexts == {l \o Fmt(n) \o r : l \in Pads, n \in SampleInts, r \in Pads}

SeqsUpTo(S, n) == UNION {[1..k -> S] : k \in 0..n}

Atoms ==
  { ExprInteger(I64(FALSE, <<4, 2>>)), ExprInteger(I64(TRUE, <<7>>)),
    ExprSymbol(<<"a", "_", "1">>) }

\* the expressions of exactly n nodes (atoms and lists), and the sequences
\* of expressions of n nodes in all
RECURSIVE Exprs(_)
RECURSIVE Forests(_)

Exprs(n) ==
  IF n <= 1 THEN Atoms \cup {ExprList(<<>>)}
  ELSE {ExprList(f) : f \in Forests(n - 1)}

Forests(n) ==
  IF n = 0 THEN {<<>>}
  ELSE UNION {{<<e>> \o f : e \in Exprs(k), f \in Forests(n - k)} : k \in 1..n}

\* the lists of at most MaxNodes nodes
Trees == UNION {{e \in Exprs(n) : e[1] = "List"} : n \in 1..MaxNodes}

\* where a printed list puts whitespace: before the text, after "(", before
\* ")", between two atoms (never empty), and between other neighbours
Styles ==
  { [lead |-> <<>>, open |-> <<>>, close |-> <<>>, sep |-> <<" ">>,
     gap |-> <<>>],
    [lead |-> <<>>, open |-> <<" ">>, close |-> <<>>, sep |-> <<" ">>,
     gap |-> <<" ">>],
    [lead |-> <<"\n">>, open |-> <<>>, close |-> <<" ", "\t">>,
     sep |-> <<"\r", "\n">>, gap |-> <<>>] }

RECURSIVE PrintExpr(_, _)
RECURSIVE PrintItems(_, _)

PrintExpr(e, sty) ==
  CASE e[1] = "Integer" -> Fmt(e[2])
    [] e[1] = "Symbol" -> e[2]
    [] e[1] = "List" ->
         <<"(">> \o sty.open \o PrintItems(e[2], sty) \o sty.close \o <<")">>

PrintItems(items, sty) ==
  IF items = <<>> THEN <<>>
  ELSE IF Len(items) = 1 THEN PrintExpr(items[1], sty)
  ELSE PrintExpr(items[1], sty)
       \o (IF items[1][1] # "List" /\ items[2][1] # "List"
           THEN sty.sep ELSE sty.gap)
       \o PrintItems(Tail(items), sty)

Render(e, sty) == sty.lead \o PrintExpr(e, sty)

\* the texts of the tests and of the documented scenarios
ExEmpty == <<"(", ")">>

ExOne == <<"(", "4", "2", ")">>

ExTheNumber ==
  <<"(", "t", "h", "e", "_", "n", "u",
    "m", "b", "e", "r", " ", "4", "2", ")">>

ExPlus == <<"(", "p", "l", "u", "s", " ", "4", "0", " ", "2", ")">>

ExNested == <<"(", "(", " ", "4", "2", ")", " ", ")">>

ExUnterminated == <<"(", "4", "2">>

ExFloat == <<"(", "4", ".", "2", ")">>

ExTwoLists == <<"(", "1", ")", "(", "2", ")">>

ExExtraParen == <<"(", "1", ")", ")">>

ExSomeName ==
  <<"(", "s", "o", "m", "e", "_", "n",
    "a", "m", "e", " ", "4", "2", ")">>

ExPadded == <<" ", "4", "2", " ">>

ExampleTexts ==
  { ExEmpty, ExOne, ExTheNumber, ExPlus, ExNested, ExUnterminated,
    ExFloat, ExTwoLists, ExExtraParen, ExSomeName, ExPadded }

Texts == PieceTexts(MaxPieces) \cup PaddedTexts \cup ExampleTexts

TokenKinds ==
  { LParan, RParan, TokInteger(I64(FALSE, <<4, 2>>)), TokSymbol(<<"a">>) }

TokenVecs == SeqsUpTo(TokenKinds, MaxToks)

(***************************************************************************)
(* The state machine.  A caller either holds a text, on which it runs the  *)
(* lexer and read, or a cursor made by Tokens::new over a token vector, on *)
(* which it runs the cursor operations, the recognizers and parse_list;    *)
(* each successful operation's cursor is the input of the next one.  call  *)
(* records the last cursor operation with its arguments and its input.     *)
(***************************************************************************)
NoCursor == Tokens_new(<<>>)

Call(op, a, b, self) == [op |-> op, a |-> a, b |-> b, self |-> self]

NoCall == Call("-", 0, 0, NoCursor)

\* src tells where the text comes from: any of Texts, or a rendered tree
InitText ==
  /\ \/ src = <<"text">> /\ text \in Texts
     \/ \E t \in Trees, sty \in Styles :
          src = <<"tree", t>> /\ text = Render(t, sty)
  /\ lexed = NotRun
  /\ readRes = NotRead
  /\ cur = NoCursor
  /\ call = NoCall
  /\ ret = NotRun

InitTokens ==
  /\ src = <<"tokens">>
  /\ text = <<>>
  /\ lexed = NotRun
  /\ readRes = NotRead
  /\ \E v \in TokenVecs :
       /\ cur = Tokens_new(v)
       /\ call = Call("new", 0, 0, Tokens_new(v))
  /\ ret = NotRun

Init == InitText \/ InitTokens

Lexer ==
  /\ call.op = "-"
  /\ lexed.st = "idle"
  /\ lexed' = lexer(text)
  /\ UNCHANGED <<src, text, readRes, cur, call, ret>>

Read ==
  /\ call.op = "-"
  /\ readRes.st = "idle"
  /\ readRes' = read(text)
  /\ UNCHANGED <<src, text, lexed, cur, call, ret>>

\* the cursor an operation leaves as the input of the next one
NextCursor(r) == IF r.st = "ok" THEN r.rem ELSE cur

SliceRange ==
  \E a \in 0..(input_len(cur) + 1), b \in 0..(input_len(cur) + 1) :
    /\ call.op # "-"
    /\ call' = Call("slice_range", a, b, cur)
    /\ ret' = slice_range(cur, a, b)
    /\ cur' = NextCursor(ret')
    /\ UNCHANGED <<src, text, lexed, readRes>>

SliceTo ==
  \E b \in 0..(input_len(cur) + 1) :
    /\ call.op # "-"
    /\ call' = Call("slice_to", 0, b, cur)
    /\ ret' = slice_to(cur, b)
    /\ cur' = NextCursor(ret')
    /\ UNCHANGED <<src, text, lexed, readRes>>

SliceFrom ==
  \E a \in 0..(input_len(cur) + 1) :
    /\ call.op # "-"
    /\ call' = Call("slice_from", a, 0, cur)
    /\ ret' = slice_from(cur, a)
    /\ cur' = NextCursor(ret')
    /\ UNCHANGED <<src, text, lexed, readRes>>

SliceFull ==
  /\ call.op # "-"
  /\ call' = Call("slice_full", 0, 0, cur)
  /\ ret' = slice_full(cur)
  /\ cur' = NextCursor(ret')
  /\ UNCHANGED <<src, text, lexed, readRes>>

TagLparan ==
  /\ call.op # "-"
  /\ call' = Call("tag_lparan", 0, 0, cur)
  /\ ret' = tag_lparan(cur)
  /\ cur' = NextCursor(ret')
  /\ UNCHANGED <<src, text, lexed, readRes>>

TagRparan ==
  /\ call.op # "-"
  /\ call' = Call("tag_rparan", 0, 0, cur)
  /\ ret' = tag_rparan(cur)
  /\ cur' = NextCursor(ret')
  /\ UNCHANGED <<src, text, lexed, readRes>>

TagInteger ==
  /\ call.op # "-"
  /\ call' = Call("tag_integer", 0, 0, cur)
  /\ ret' = tag_integer(cur)
  /\ cur' = NextCursor(ret')
  /\ UNCHANGED <<src, text, lexed, readRes>>

TagSymbol ==
  /\ call.op # "-"
  /\ call' = Call("tag_symbol", 0, 0, cur)
  /\ ret' = tag_symbol(cur)
  /\ cur' = NextCursor(ret')
  /\ UNCHANGED <<src, text, lexed, readRes>>

ParseList ==
  /\ call.op # "-"
  /\ call' = Call("parse_list", 0, 0, cur)
  /\ ret' = parse_list(cur)
  /\ cur' = NextCursor(ret')
  /\ UNCHANGED <<src, text, lexed, readRes>>

Next ==
  \/ Lexer
  \/ Read
  \/ SliceRange
  \/ SliceTo
  \/ SliceFrom
  \/ SliceFull
  \/ TagLparan
  \/ TagRparan
  \/ TagInteger
  \/ TagSymbol
  \/ ParseList

Spec == Init /\ [][Next]_vars

(***************************************************************************)
(* Reference notions the properties are stated with.  They are computed    *)
(* from the token sequence alone, by counting parentheses or with an       *)
(* explicit stack, and share nothing with the recognizers above.           *)
(***************************************************************************)
Delta(tok) ==
  IF tok[1] = "LParan" THEN 1 ELSE IF tok[1] = "RParan" THEN -1 ELSE 0

\* opened minus closed parentheses of T
RECURSIVE Depth(_)
Depth(T) ==
  IF T = <<>> THEN 0 ELSE Depth(SubSeq(T, 1, Len(T) - 1)) + Delta(T[Len(T)])

Balanced(T) ==
  /\ Depth(T) = 0
  /\ \A k \in 1..Len(T) : Depth(SubSeq(T, 1, k)) >= 0

\* T starts with "(" and that parenthesis is closed somewhere in T
ListPrefix(T) ==
  /\ T # <<>>
  /\ T[1][1] = "LParan"
  /\ \E k \in 1..Len(T) : Depth(SubSeq(T, 1, k)) = 0

\* the position of the ")" closing the first "("
ClosingAt(T) ==
  CHOOSE k \in 1..Len(T) :
    /\ Depth(SubSeq(T, 1, k)) = 0
    /\ \A j \in 1..(k - 1) : Depth(SubSeq(T, 1, j)) > 0

\* the first complete expression of T from position i, built with a stack of
\* the open lists' children: [found, tree, used]
RECURSIVE RefBuild(_, _, _)
RefBuild(T, i, stack) ==
  IF i > Len(T) THEN [found |-> FALSE, tree |-> <<>>, used |-> 0]
  ELSE IF T[i][1] = "LParan" THEN RefBuild(T, i + 1, Append(stack, <<>>))
  ELSE IF T[i][1] = "RParan"
    THEN IF stack = <<>> THEN [found |-> FALSE, tree |-> <<>>, used |-> 0]
         ELSE LET n == Len(stack)
                  done == <<"List", stack[n]>>
              IN IF n = 1 THEN [found |-> TRUE, tree |-> done, used |-> i]
                 ELSE RefBuild(T, i + 1,
                        Append(SubSeq(stack, 1, n - 2),
                               Append(stack[n - 1], done)))
  ELSE IF stack = <<>> THEN [found |-> TRUE, tree |-> T[i], used |-> i]
  ELSE LET n == Len(stack)
       IN RefBuild(T, i + 1,
            Append(SubSeq(stack, 1, n - 1), Append(stack[n], T[i])))

FirstExpr(T) == RefBuild(T, 1, <<>>)

PlainStyle ==
  [lead |-> <<>>, open |-> <<>>, close |-> <<>>, sep |-> <<" ">>, gap |-> <<>>]

SpecSymbolChars == AsciiLetters \cup Digits \cup {"_"}

Int42 == I64(FALSE, <<4, 2>>)

TextRan == call.op = "-" /\ lexed.st # "idle"

ReadRan == call.op = "-" /\ readRes.st # "idle"

ReadIs(e) == readRes.st = "Some" /\ readRes.val = e

(***************************************************************************)
(* C1: read of a text that is one balanced parenthesised list of integers, *)
(* symbols and nested lists, with nothing after the final ")", returns the *)
(* List of its elements in left-to-right order, every nested "(" ... ")"   *)
(* a nested List at the same position.  Stated as a round trip: the text   *)
(* rendered from a tree, under any whitespace style, reads back as that    *)
(* tree; on every text whose tokens are exactly one list, read returns the *)
(* tree the stack builds from them; and on the documented examples.        *)
(***************************************************************************)
OneList(T) ==
  /\ FirstExpr(T).found
  /\ FirstExpr(T).used = Len(T)
  /\ FirstExpr(T).tree[1] = "List"

C1_ReadListInOrder ==
  ReadRan =>
    /\ src[1] = "tree" => ReadIs(src[2])
    /\ (TextRan /\ lexed.st = "ok" /\ OneList(lexed.out))
         => ReadIs(FirstExpr(lexed.out).tree)
    /\ text = ExEmpty => ReadIs(ExprList(<<>>))
    /\ text = ExOne => ReadIs(ExprList(<<ExprInteger(Int42)>>))
    /\ text = ExNested =>
         ReadIs(ExprList(<<ExprList(<<ExprInteger(Int42)>>)>>))
    /\ text = ExPlus =>
         ReadIs(ExprList(<<ExprSymbol(<<"p", "l", "u", "s">>),
                           ExprInteger(I64(FALSE, <<4, 0>>)),
                           ExprInteger(I64(FALSE, <<2>>))>>))

C1_Witness ==
  /\ ReadRan
  /\ src[1] = "tree"
  /\ readRes.st = "Some"
  /\ Len(readRes.val[2]) = 2
  /\ readRes.val[2][1][1] = "List"
  /\ Len(readRes.val[2][1][2]) = 2
  /\ readRes.val[2][2][1] = "Symbol"

(***************************************************************************)
(* C2: for every i64 n and every run of leading and trailing whitespace,   *)
(* the lexer on the padded decimal text of n succeeds with exactly         *)
(* [Integer(n)].                                                           *)
(***************************************************************************)
C2_PaddedIntegerLexes ==
  TextRan =>
    \A l \in Pads, n \in SampleInts, r \in Pads :
      text = l \o Fmt(n) \o r =>
        lexed.st = "ok" /\ lexed.out = <<TokInteger(n)>>

(***************************************************************************)
(* C3: read parses one top-level expr: a text that is a single Integer     *)
(* token reads as Expr::Integer, a single Symbol token as Expr::Symbol,    *)
(* and a list as the parsed list.                                          *)
(***************************************************************************)
C3_ReadTopLevelExpr ==
  (TextRan /\ ReadRan /\ lexed.st = "ok") =>
    /\ (Len(lexed.out) = 1 /\ lexed.out[1][1] = "Integer")
         => ReadIs(ExprInteger(lexed.out[1][2]))
    /\ (Len(lexed.out) = 1 /\ lexed.out[1][1] = "Symbol")
         => ReadIs(ExprSymbol(lexed.out[1][2]))
    /\ (lexed.out # <<>> /\ lexed.out[1][1] = "LParan"
          /\ Balanced(lexed.out))
         => readRes.st = "Some" /\ readRes.val[1] = "List"

(***************************************************************************)
(* C4, as stated: parse_list on a cursor over T succeeds if and only if T  *)
(* starts with LParan and the parentheses of T are balanced.               *)
(***************************************************************************)
C4_ParseListIffBalanced ==
  call.op = "parse_list" =>
    (ret.st = "ok" <=>
       /\ call.self.tokens # <<>>
       /\ call.self.tokens[1][1] = "LParan"
       /\ Balanced(call.self.tokens))

(***************************************************************************)
(* C4, amended: parse_list on a cursor over T succeeds if and only if T    *)
(* starts with LParan and that parenthesis is closed in T; the remainder   *)
(* it returns holds the tokens after the closing parenthesis, whatever     *)
(* they are.                                                               *)
(***************************************************************************)
C4_ParseListIffListPrefix ==
  call.op = "parse_list" =>
    /\ ret.st = "ok" <=> ListPrefix(call.self.tokens)
    /\ ret.st = "ok" =>
         /\ ret.rem.tokens =
              SubSeq(call.self.tokens, ClosingAt(call.self.tokens) + 1,
                     Len(call.self.tokens))
         /\ ret.out[1] = "List"

C4_Witness ==
  /\ call.op = "parse_list"
  /\ ret.st = "ok"
  /\ ret.rem.tokens # <<>>
  /\ ~Balanced(call.self.tokens)

(***************************************************************************)
(* C5: no Symbol token the lexer emits has a text made of decimal digits   *)
(* only.                                                                   *)
(***************************************************************************)
C5_NoDigitOnlySymbol ==
  (TextRan /\ lexed.st = "ok") =>
    \A i \in 1..Len(lexed.out) :
      lexed.out[i][1] = "Symbol" =>
        \E j \in 1..Len(lexed.out[i][2]) : lexed.out[i][2][j] \notin Digits

(***************************************************************************)
(* C6: every Symbol token the lexer emits has a non-empty text made of     *)
(* characters of [A-Za-z0-9_] only.                                        *)
(***************************************************************************)
C6_SymbolCharset ==
  (TextRan /\ lexed.st = "ok") =>
    \A i \in 1..Len(lexed.out) :
      lexed.out[i][1] = "Symbol" =>
        /\ lexed.out[i][2] # <<>>
        /\ \A j \in 1..Len(lexed.out[i][2]) :
             lexed.out[i][2][j] \in SpecSymbolChars

(***************************************************************************)
(* C7: read never returns None; it panics at the lex stage exactly when    *)
(* the lexer fails on the text, panics at the parse stage exactly when the *)
(* lexer succeeds and its tokens do not start with a closed list, and      *)
(* returns Some(tree) otherwise.  "(4.2)" fails at the lex stage and "(42" *)
(* at the parse stage.                                                     *)
(***************************************************************************)
C7_ReadFailsWithItsStages ==
  ReadRan =>
    /\ readRes.st \in {"Some", "panic"}
    /\ text = ExFloat => readRes = Panic("lex")
    /\ text = ExUnterminated => readRes = Panic("parse")
    /\ TextRan =>
         /\ lexed.st = "err" <=> readRes = Panic("lex")
         /\ (lexed.st = "ok" /\ ~ListPrefix(lexed.out))
              <=> readRes = Panic("parse")
         /\ (lexed.st = "ok" /\ ListPrefix(lexed.out))
              <=> readRes.st = "Some"

C7_Witness ==
  /\ ReadRan
  /\ TextRan
  /\ text = ExUnterminated
  /\ lexed.st = "ok"
  /\ readRes = Panic("parse")

(***************************************************************************)
(* C8: when the tokens of the text are a well-formed first top-level       *)
(* expression E followed by further tokens R, read returns the tree of E,  *)
(* the same as read on the text of E alone.                                *)
(***************************************************************************)
C8_ReadDiscardsTrailingTokens ==
  (TextRan /\ ReadRan /\ lexed.st = "ok") =>
    LET e == FirstExpr(lexed.out)
    IN (e.found /\ e.used < Len(lexed.out)) =>
         /\ ReadIs(e.tree)
         /\ readRes = read(Render(e.tree, PlainStyle))

(***************************************************************************)
(* C9: for a cursor of length L, slice(a..b) with a <= b <= L, slice(..b)  *)
(* with b <= L, slice(a..) with a <= L and slice(..) each return a cursor  *)
(* over exactly the tokens a..b of the view (a = 0 and b = L where         *)
(* omitted).                                                               *)
(***************************************************************************)
SliceWanted(lo, hi) ==
  /\ ret.st = "ok"
  /\ ret.rem.tokens = SubSeq(call.self.tokens, lo + 1, hi)

C9_SliceEveryRangeForm ==
  LET L == Len(call.self.tokens)
  IN /\ (call.op = "slice_range" /\ call.a <= call.b /\ call.b <= L)
          => SliceWanted(call.a, call.b)
     /\ (call.op = "slice_to" /\ call.b <= L) => SliceWanted(0, call.b)
     /\ (call.op = "slice_from" /\ call.a <= L) => SliceWanted(call.a, L)
     /\ call.op = "slice_full" => SliceWanted(0, L)

(***************************************************************************)
(* C10: on a cursor of length L >= 1 whose first token is of the           *)
(* recognizer's class, however the cursor was obtained, each single-token  *)
(* recognizer returns (remainder, matched) with matched a fresh cursor     *)
(* over the first token and remainder a fresh cursor over the other L - 1  *)
(* tokens: start = 0, end = the token count, the lengths adding up to L.   *)
(***************************************************************************)
TagClass(op) ==
  CASE op = "tag_lparan" -> "LParan"
    [] op = "tag_rparan" -> "RParan"
    [] op = "tag_integer" -> "Integer"
    [] op = "tag_symbol" -> "Symbol"

TagOps == {"tag_lparan", "tag_rparan", "tag_integer", "tag_symbol"}

C10_SplitNormalized ==
  (/\ call.op \in TagOps
   /\ call.self.tokens # <<>>
   /\ call.self.tokens[1][1] = TagClass(call.op))
    => /\ ret.st = "ok"
       /\ ret.out = Tokens_new(<<call.self.tokens[1]>>)
       /\ ret.rem = Tokens_new(Tail(call.self.tokens))
       /\ ret.out.start = 0 /\ ret.out.end = 1
       /\ ret.rem.start = 0 /\ ret.rem.end = Len(call.self.tokens) - 1
       /\ input_len(ret.out) + input_len(ret.rem) = input_len(call.self)

C10_Witness ==
  /\ call.op = "tag_integer"
  /\ call.self.start > 0
  /\ input_len(call.self) >= 2
  /\ ret.st = "ok"
  /\ input_len(ret.rem) >= 1

====
